---- MODULE Spec2Model ----
(***************************************************************************)
(* PhotoSorter (src/photo_sorter/cli/sort.py): one PhotoSorter.sort run    *)
(* discovers the source files, checks the free space of the destination,   *)
(* submits one _process_file invocation per file to a thread pool and      *)
(* collects the results.  The invocations share the sorter's counters and  *)
(* lists and the destination filesystem; every access to one of them is a  *)
(* step of its own, so that the interleavings of the pool are the          *)
(* behaviours of the model.  A finished run may be followed by another run *)
(* of a fresh PhotoSorter on the same source and destination.              *)
(***************************************************************************)
EXTENDS Naturals, Sequences, FiniteSets, TLC

\* ---------------------------------------------------------------- bounds
\* Largest number of files os.walk discovers under source_dir.
MaxFiles == 2
\* Number of consecutive runs on the same source and destination.
MaxRuns == 2
\* Number of filesystem or metadata calls that fail over all the runs.
MaxFaults == 1

\* ---------------------------------------------------------------- inputs
\* The source files a tree is drawn from.  A filename is base, then the
\* "_<n>" suffixes it carries, then the extension: a.jpg, a_1.jpg, a.mov.
\* content stands for the file's bytes, month for the month of the date
\* get_creation_date resolves, size for os.path.getsize.
SourceFiles ==
  << [base |-> "a", sfx |-> <<>>,  ext |-> ".jpg", content |-> "x", month |-> "05", size |-> 1],
     [base |-> "a", sfx |-> <<>>,  ext |-> ".jpg", content |-> "y", month |-> "05", size |-> 2],
     [base |-> "a", sfx |-> <<>>,  ext |-> ".jpg", content |-> "x", month |-> "06", size |-> 1],
     [base |-> "a", sfx |-> <<1>>, ext |-> ".jpg", content |-> "y", month |-> "05", size |-> 2],
     [base |-> "a", sfx |-> <<>>,  ext |-> ".mov", content |-> "x", month |-> "05", size |-> 1] >>

\* The trees, as sequences of indices into SourceFiles: file k of a tree
\* lives in its own source subdirectory, so two files of a tree may carry the
\* same filename.  The pool treats the files alike, so a tree is taken up to
\* the order of its files: every tree of one file and of two files, and of
\* the trees of three a.jpg with two different contents beside a_1.jpg.
Kinds == 1..Len(SourceFiles)

TreeCatalog ==
  { <<a>> : a \in Kinds }
  \cup { <<a, b>> : a, b \in Kinds }
  \cup { <<1, 2, 4>> }

Trees ==
  { t \in TreeCatalog :
      /\ Len(t) <= MaxFiles
      /\ \A k \in 1..(Len(t) - 1) : t[k] <= t[k + 1] }

NoFiles == [p \in {} |-> "x"]
NoMapping == [e \in {} |-> "x"]

Year == "2023"
JpgMay == <<Year, "05", "JPG">>

DestFile(dir, base, sfx, ext) == [dir |-> dir, base |-> base, sfx |-> sfx, ext |-> ext]

\* What a run starts from besides the tree.  include_types, exclude_types
\* and extension_mapping are as sort_photos_command normalises them: None
\* (here {}) or a list of lowercase dotted extensions.  free is what
\* shutil.disk_usage reports for dest_dir, dest the destination tree.  The
\* default is varied in one respect at a time.
Default == [include |-> {}, exclude |-> {}, mapping |-> NoMapping, free |-> 9, dest |-> NoFiles]

Setups ==
  { Default,
    [Default EXCEPT !.include = {".jpg"}],
    [Default EXCEPT !.exclude = {".mov"}],
    [Default EXCEPT !.include = {".jpg"}, !.exclude = {".jpg"}],
    [Default EXCEPT !.mapping = ".mov" :> "Videos"],
    [Default EXCEPT !.free = 3],
    [Default EXCEPT !.dest = DestFile(JpgMay, "a", <<>>, ".jpg") :> "x"],
    [Default EXCEPT !.dest = DestFile(JpgMay, "a", <<>>, ".jpg") :> "y"],
    [Default EXCEPT !.dest = (DestFile(JpgMay, "a", <<>>, ".jpg") :> "y")
                             @@ (DestFile(JpgMay, "a", <<1>>, ".jpg") :> "y")] }

\* Content of a destination file that was opened for writing and not
\* (completely) written, and of one two copies wrote into at the same time.
Partial == "partial"
Garbled == "garbled"

\* ----------------------------------------------------------------- state
VARIABLES
  tree,             \* the discovered files: indices into SourceFiles
  source,           \* the bytes of each discovered file under source_dir
  config,           \* include_types, exclude_types, extension_mapping, free bytes at dest_dir
  faults,           \* number of calls that may still fail
  dry_run,          \* self.dry_run
  fs,               \* destination files: path -> content
  dirs,             \* destination directories below dest_dir
  fs0,              \* fs and dirs when the current run started
  main,             \* position of sort(): "init", "collect", "done", "aborted"
  pc,               \* position of each _process_file invocation
  reg,              \* value an invocation read and has not written back yet
  dest_file_path,   \* local dest_file_path (dest_path is its dir)
  i,                \* local i of the disambiguator loop
  result,           \* what the invocation returned (the future's result)
  processed_files,  \* self.processed_files
  file_counts,      \* self.file_counts
  sorted_files,     \* self.sorted_files
  skipped_files,    \* self.skipped_files
  errors,           \* self.errors
  log               \* summaries of the finished runs, oldest first

vars == << tree, source, config, faults, dry_run, fs, dirs, fs0, main, pc, reg,
           dest_file_path, i, result, processed_files, file_counts,
           sorted_files, skipped_files, errors, log >>

\* The discovered files, by their position in files_to_process.
F == 1..Len(tree)

File(f) == SourceFiles[tree[f]]

\* An existence check that never finds anything.
Exists_never(p) == FALSE

\* --------------------------------------------------------- pure functions
\* os.path.exists
Exists(p) == p \in DOMAIN fs

\* file_ext[1:].upper()
FileType(ext) == IF ext = ".jpg" THEN "JPG" ELSE IF ext = ".mov" THEN "MOV" ELSE ""

\* Lines 77-80: the include test, then the exclude test; an empty list is as None.
PassesFilter(ext) ==
  /\ ~(config.include # {} /\ ext \notin config.include)
  /\ ~(config.exclude # {} /\ ext \in config.exclude)

\* A layout that ignores extension_mapping.
DestPath_dateOnly(f) == << Year, File(f).month, FileType(File(f).ext) >>

\* Lines 85-92: dest_path.
DestPath(f) ==
  IF File(f).ext \in DOMAIN config.mapping
    THEN << config.mapping[File(f).ext] >>
    ELSE << Year, File(f).month, FileType(File(f).ext) >>

\* Lines 94-95: dest_file_path = dest_path / basename(file_path).
Candidate(f) == DestFile(DestPath(f), File(f).base, File(f).sfx, File(f).ext)

\* Lines 104-106: f"{name}_{i}{ext}" in dest_path.
Disambiguated(f, n) ==
  DestFile(DestPath(f), File(f).base, Append(File(f).sfx, n), File(f).ext)

\* A loop that skips every other disambiguator.
NextIndex_skipping(n) == n + 2

\* A loop that never advances.
NextIndex_stuck(n) == n

\* Line 110: i += 1.
NextIndex(n) == n + 1

\* filecmp.cmp(file_path, dest_file_path, shallow=False)
SameContent(f, p) == fs[p] = source[f]

\* os.makedirs(dest_path, exist_ok=True): dest_path and its parents.
WithParents(d) == { SubSeq(d, 1, k) : k \in 1..Len(d) }

Write(p, c) == [q \in DOMAIN fs \cup {p} |-> IF q = p THEN c ELSE fs[q]]

\* The directories the files of a destination tree lie in.
DirsOf(files) == UNION { WithParents(p.dir) : p \in DOMAIN files }

\* _check_disk_space, line 66.
TotalSize == LET S[k \in 0..Len(tree)] == IF k = 0 THEN 0 ELSE S[k - 1] + File(k).size
             IN  S[Len(tree)]

\* Results of _process_file.
Pending == [tag |-> "pending"]
None == [tag |-> "none"]
Sorted(f, p) == [tag |-> "sorted", src |-> f, dst |-> p]
Skipped(f, p) == [tag |-> "skipped", src |-> f, dst |-> p]
Error(f, msg) == [tag |-> "error", src |-> f, msg |-> msg]

\* A handler that swallows the exception and returns nothing.
OnException_swallowed(f, msg) == None

\* Line 118-119: except Exception as e: return ("error", (file_path, str(e))).
OnException(f, msg) == Error(f, msg)

\* A guard that counts the files instead of summing their sizes.
NotEnoughSpace_counted == Len(tree) > config.free

\* Line 68: the guard of the fatal error.
NotEnoughSpace == TotalSize > config.free

\* A copy that is made whatever the mode of the run.
Copies_always == TRUE

\* Line 112: the copy is made unless the run is a dry run.
Copies == ~dry_run

\* The lists a file's outcome was put in.
Class(f) ==
  (IF \E k \in 1..Len(sorted_files) : sorted_files[k].src = f THEN {"sorted"} ELSE {})
  \cup (IF \E k \in 1..Len(skipped_files) : skipped_files[k].src = f THEN {"skipped"} ELSE {})
  \cup (IF \E k \in 1..Len(errors) : errors[k].src = f THEN {"error"} ELSE {})

\* ------------------------------------------------------------------ Init
\* PhotoSorter.__init__, lines 52-63, on a source tree and a destination.
Init ==
  /\ tree \in Trees
  /\ source = [f \in F |-> File(f).content]
  /\ config \in Setups
  /\ faults = MaxFaults
  /\ dry_run \in BOOLEAN
  /\ fs = config.dest
  /\ dirs = DirsOf(fs)
  /\ fs0 = [files |-> fs, dirs |-> dirs]
  /\ main = "init"
  /\ pc = [f \in F |-> "idle"]
  /\ reg = [f \in F |-> 0]
  /\ dest_file_path = [f \in F |-> Candidate(f)]
  /\ i = [f \in F |-> 0]
  /\ result = [f \in F |-> Pending]
  /\ processed_files = 0
  /\ file_counts = << >>
  /\ sorted_files = << >>
  /\ skipped_files = << >>
  /\ errors = << >>
  /\ log = << >>

\* -------------------------------------------------------------- sort()
\* Lines 123-124 and 68-70: the files are discovered, their sizes summed and
\* compared with the free space; typer.Exit leaves sort() before the pool
\* is created.
Abort ==
  /\ main = "init"
  /\ NotEnoughSpace
  /\ main' = "aborted"
  /\ UNCHANGED << tree, source, config, faults, dry_run, fs, dirs, fs0, pc, reg,
                  dest_file_path, i, result, processed_files, file_counts,
                  sorted_files, skipped_files, errors, log >>

\* Lines 127-128: one _process_file per discovered file is submitted; the
\* default pool has more threads than the tree has files.
Dispatch ==
  /\ main = "init"
  /\ ~NotEnoughSpace
  /\ main' = "collect"
  /\ pc' = [f \in F |-> "start"]
  /\ UNCHANGED << tree, source, config, faults, dry_run, fs, dirs, fs0, reg,
                  dest_file_path, i, result, processed_files, file_counts,
                  sorted_files, skipped_files, errors, log >>

\* The invocation of f returns r: its locals are gone.
Return(f, r) ==
  /\ pc' = [pc EXCEPT ![f] = "returned"]
  /\ result' = [result EXCEPT ![f] = r]
  /\ reg' = [reg EXCEPT ![f] = 0]
  /\ i' = [i EXCEPT ![f] = 0]
  /\ dest_file_path' = [dest_file_path EXCEPT ![f] = Candidate(f)]

\* An exception is raised inside the try block of f; the handler still sees
\* dest_file_path.
Raise(f, msg) ==
  /\ faults > 0
  /\ faults' = faults - 1
  /\ pc' = [pc EXCEPT ![f] = "except"]
  /\ result' = [result EXCEPT ![f] = [tag |-> "raising", msg |-> msg]]
  /\ reg' = [reg EXCEPT ![f] = 0]
  /\ i' = [i EXCEPT ![f] = 0]
  /\ UNCHANGED dest_file_path

\* Line 112 and 116 once the final path p is known: a dry run returns
\* ("sorted", ...) at once, a real run goes on to makedirs and copy2.
Settle(f, p) ==
  IF Copies
    THEN /\ pc' = [pc EXCEPT ![f] = "mkdir"]
         /\ dest_file_path' = [dest_file_path EXCEPT ![f] = p]
         /\ i' = [i EXCEPT ![f] = 0]
         /\ UNCHANGED << result, reg >>
    ELSE Return(f, Sorted(f, p))

\* ------------------------------------------------------- _process_file
\* Lines 75-83: the filter, then the read of self.processed_files.
Start(f) ==
  /\ main = "collect" /\ pc[f] = "start"
  /\ IF PassesFilter(File(f).ext)
       THEN /\ pc' = [pc EXCEPT ![f] = "inc_write"]
            /\ reg' = [reg EXCEPT ![f] = processed_files]
            /\ UNCHANGED << result, i, dest_file_path >>
       ELSE Return(f, None)
  /\ UNCHANGED << tree, source, config, faults, dry_run, fs, dirs, fs0, main,
                  processed_files, file_counts, sorted_files, skipped_files,
                  errors, log >>

\* Line 83: the store of self.processed_files += 1.
WriteProcessed(f) ==
  /\ main = "collect" /\ pc[f] = "inc_write"
  /\ processed_files' = reg[f] + 1
  /\ pc' = [pc EXCEPT ![f] = "cnt_read"]
  /\ reg' = [reg EXCEPT ![f] = 0]
  /\ UNCHANGED << tree, source, config, faults, dry_run, fs, dirs, fs0, main,
                  dest_file_path, i, result, file_counts, sorted_files,
                  skipped_files, errors, log >>

\* Line 84: self.file_counts.get(file_ext, 0).
ReadCount(f) ==
  /\ main = "collect" /\ pc[f] = "cnt_read"
  /\ reg' = [reg EXCEPT ![f] = IF File(f).ext \in DOMAIN file_counts
                                 THEN file_counts[File(f).ext] ELSE 0]
  /\ pc' = [pc EXCEPT ![f] = "cnt_write"]
  /\ UNCHANGED << tree, source, config, faults, dry_run, fs, dirs, fs0, main,
                  dest_file_path, i, result, processed_files, file_counts,
                  sorted_files, skipped_files, errors, log >>

\* Line 84: the store self.file_counts[file_ext] = ... + 1.
WriteCount(f) ==
  /\ main = "collect" /\ pc[f] = "cnt_write"
  /\ file_counts' = [e \in DOMAIN file_counts \cup {File(f).ext} |->
                       IF e = File(f).ext THEN reg[f] + 1 ELSE file_counts[e]]
  /\ pc' = [pc EXCEPT ![f] = "resolve"]
  /\ reg' = [reg EXCEPT ![f] = 0]
  /\ UNCHANGED << tree, source, config, faults, dry_run, fs, dirs, fs0, main,
                  dest_file_path, i, result, processed_files, sorted_files,
                  skipped_files, errors, log >>

\* Lines 85-97: dest_path (get_creation_date reads the source file and may
\* raise), dest_file_path and the existence check.
Resolve(f) ==
  /\ main = "collect" /\ pc[f] = "resolve"
  /\ \/ /\ File(f).ext \notin DOMAIN config.mapping
        /\ Raise(f, "get_creation_date")
     \/ /\ UNCHANGED faults
        /\ IF Exists(Candidate(f))
          THEN /\ pc' = [pc EXCEPT ![f] = "cmp"]
               /\ dest_file_path' = [dest_file_path EXCEPT ![f] = Candidate(f)]
               /\ UNCHANGED << result, reg, i >>
          ELSE Settle(f, Candidate(f))
  /\ UNCHANGED << tree, source, config, dry_run, fs, dirs, fs0, main,
                  processed_files, file_counts, sorted_files, skipped_files,
                  errors, log >>

\* Lines 98-102: the byte comparison with the file found at dest_file_path;
\* equal content is appended to self.skipped_files here, in the worker.
Compare(f) ==
  /\ main = "collect" /\ pc[f] = "cmp"
  /\ \/ /\ Raise(f, "filecmp")
        /\ UNCHANGED skipped_files
     \/ /\ UNCHANGED faults
        /\ IF SameContent(f, dest_file_path[f])
          THEN /\ skipped_files' = Append(skipped_files, Skipped(f, dest_file_path[f]))
               /\ Return(f, Skipped(f, dest_file_path[f]))
          ELSE /\ i' = [i EXCEPT ![f] = 1]
               /\ pc' = [pc EXCEPT ![f] = "probe"]
               /\ UNCHANGED << skipped_files, result, reg, dest_file_path >>
  /\ UNCHANGED << tree, source, config, dry_run, fs, dirs, fs0, main,
                  processed_files, file_counts, sorted_files, errors, log >>

\* Lines 103-110: one turn of the disambiguator loop.
Probe(f) ==
  /\ main = "collect" /\ pc[f] = "probe"
  /\ IF ~Exists(Disambiguated(f, i[f]))
       THEN Settle(f, Disambiguated(f, i[f]))
       ELSE /\ i' = [i EXCEPT ![f] = NextIndex(i[f])]
            /\ UNCHANGED << pc, result, reg, dest_file_path >>
  /\ UNCHANGED << tree, source, config, faults, dry_run, fs, dirs, fs0, main,
                  processed_files, file_counts, sorted_files, skipped_files,
                  errors, log >>

\* Line 113: os.makedirs(dest_path, exist_ok=True).
MakeDirs(f) ==
  /\ main = "collect" /\ pc[f] = "mkdir"
  /\ \/ /\ Raise(f, "makedirs")
        /\ UNCHANGED dirs
     \/ /\ UNCHANGED faults
        /\ dirs' = dirs \cup WithParents(dest_file_path[f].dir)
        /\ pc' = [pc EXCEPT ![f] = "copy_open"]
        /\ UNCHANGED << result, reg, i, dest_file_path >>
  /\ UNCHANGED << tree, source, config, dry_run, fs, fs0, main,
                  processed_files, file_counts, sorted_files, skipped_files,
                  errors, log >>

\* Line 114, shutil.copy2 opening the destination for writing: the file is
\* created or truncated.
CopyOpen(f) ==
  /\ main = "collect" /\ pc[f] = "copy_open"
  /\ \/ /\ Raise(f, "copy2 open")
        /\ UNCHANGED fs
     \/ /\ UNCHANGED faults
        /\ fs' = Write(dest_file_path[f], Partial)
        /\ pc' = [pc EXCEPT ![f] = "copy_write"]
        /\ UNCHANGED << result, reg, i, dest_file_path >>
  /\ UNCHANGED << tree, source, config, dry_run, dirs, fs0, main,
                  processed_files, file_counts, sorted_files, skipped_files,
                  errors, log >>

\* What the destination holds when the copy of f completes: the bytes of f,
\* or a mix when another copy completed on the same path in between.
Written(f) ==
  {source[f]}
  \cup (IF fs[dest_file_path[f]] \notin {Partial, source[f]} THEN {Garbled} ELSE {})

\* A move: none of the bytes is left at file_path once they are at the
\* destination.
SourceAfterCopy_moved(f) == [source EXCEPT ![f] = Partial]

\* Line 114: shutil.copy2 opens file_path for reading only.
SourceAfterCopy(f) == source

\* Line 114, shutil.copy2 writing the bytes and returning, or failing midway
\* and leaving what was written; line 116 returns ("sorted", ...).
CopyWrite(f) ==
  /\ main = "collect" /\ pc[f] = "copy_write"
  /\ \/ /\ Raise(f, "copy2 write")
        /\ UNCHANGED << fs, source >>
     \/ /\ UNCHANGED faults
        /\ \E c \in Written(f) : fs' = Write(dest_file_path[f], c)
        /\ source' = SourceAfterCopy(f)
        /\ Return(f, Sorted(f, dest_file_path[f]))
  /\ UNCHANGED << tree, config, dry_run, dirs, fs0, main,
                  processed_files, file_counts, sorted_files, skipped_files,
                  errors, log >>

\* Lines 118-119: the exception is caught and turned into the result.
Except(f) ==
  /\ main = "collect" /\ pc[f] = "except"
  /\ Return(f, OnException(f, result[f].msg))
  /\ UNCHANGED << tree, source, config, faults, dry_run, fs, dirs, fs0, main,
                  processed_files, file_counts, sorted_files, skipped_files,
                  errors, log >>

\* Lines 130-138: as_completed hands over a finished future, and its result
\* is appended to the list its tag names; None is dropped.
Collect(f) ==
  /\ main = "collect" /\ pc[f] = "returned"
  /\ pc' = [pc EXCEPT ![f] = "collected"]
  /\ sorted_files' = IF result[f].tag = "sorted"
                       THEN Append(sorted_files, result[f]) ELSE sorted_files
  /\ skipped_files' = IF result[f].tag = "skipped"
                        THEN Append(skipped_files, result[f]) ELSE skipped_files
  /\ errors' = IF result[f].tag = "error" THEN Append(errors, result[f]) ELSE errors
  /\ UNCHANGED << tree, source, config, faults, dry_run, fs, dirs, fs0, main, reg,
                  dest_file_path, i, result, processed_files, file_counts, log >>

\* Line 140: every future was collected; sort() prints the summary and returns.
Finish ==
  /\ main = "collect"
  /\ \A f \in F : pc[f] = "collected"
  /\ main' = "done"
  /\ UNCHANGED << tree, source, config, faults, dry_run, fs, dirs, fs0, pc, reg,
                  dest_file_path, i, result, processed_files, file_counts,
                  sorted_files, skipped_files, errors, log >>

\* What is kept of a finished run.
Summary ==
  [dry |-> dry_run, class |-> [f \in F |-> Class(f)], before |-> fs0.files, after |-> fs]

\* Lines 48-49 and 52-63: a fresh PhotoSorter is run on the same source and
\* destination with the same filters and mapping.
NewRun ==
  /\ main = "done"
  /\ Len(log) + 1 < MaxRuns
  /\ log' = Append(log, Summary)
  /\ dry_run' \in BOOLEAN
  /\ fs0' = [files |-> fs, dirs |-> dirs]
  /\ main' = "init"
  /\ pc' = [f \in F |-> "idle"]
  /\ result' = [f \in F |-> Pending]
  /\ processed_files' = 0
  /\ file_counts' = << >>
  /\ sorted_files' = << >>
  /\ skipped_files' = << >>
  /\ errors' = << >>
  /\ UNCHANGED << tree, source, config, faults, fs, dirs, reg, dest_file_path, i >>

Next ==
  \/ Abort
  \/ Dispatch
  \/ \E f \in F : Start(f)
  \/ \E f \in F : WriteProcessed(f)
  \/ \E f \in F : ReadCount(f)
  \/ \E f \in F : WriteCount(f)
  \/ \E f \in F : Resolve(f)
  \/ \E f \in F : Compare(f)
  \/ \E f \in F : Probe(f)
  \/ \E f \in F : MakeDirs(f)
  \/ \E f \in F : CopyOpen(f)
  \/ \E f \in F : CopyWrite(f)
  \/ \E f \in F : Except(f)
  \/ \E f \in F : Collect(f)
  \/ Finish
  \/ NewRun

Spec == Init /\ [][Next]_vars

\* One run of sort().
NextRun ==
  \/ Abort
  \/ Dispatch
  \/ \E f \in F : Start(f)
  \/ \E f \in F : WriteProcessed(f)
  \/ \E f \in F : ReadCount(f)
  \/ \E f \in F : WriteCount(f)
  \/ \E f \in F : Resolve(f)
  \/ \E f \in F : Compare(f)
  \/ \E f \in F : Probe(f)
  \/ \E f \in F : MakeDirs(f)
  \/ \E f \in F : CopyOpen(f)
  \/ \E f \in F : CopyWrite(f)
  \/ \E f \in F : Except(f)
  \/ \E f \in F : Collect(f)
  \/ Finish

SpecRun == Init /\ [][NextRun]_vars

\* The steps of the invocation the pool runs for file f, and those of the
\* thread that called sort().
WorkerStep(f) ==
  /\ f \in F
  /\ \/ Start(f) \/ WriteProcessed(f) \/ ReadCount(f) \/ WriteCount(f)
     \/ Resolve(f) \/ Compare(f) \/ Probe(f)
     \/ MakeDirs(f) \/ CopyOpen(f) \/ CopyWrite(f) \/ Except(f)

MainStep == Abort \/ Dispatch \/ (\E f \in F : Collect(f)) \/ Finish

\* One run of sort() in which every submitted invocation keeps being
\* scheduled by the pool (lines 127-128) and the calling thread keeps
\* running (lines 130-140).
FairRun ==
  /\ SpecRun
  /\ WF_vars(MainStep)
  /\ \A f \in 1..MaxFiles : WF_vars(WorkerStep(f))

\* ------------------------------------------------------- sort_photos()
\* src/sorter.py, the function main.py calls: one loop over the discovered
\* files, one file after the other.  f is the file the loop is at.
Current(f) == \A g \in 1..(f - 1) : pc[g] = "collected"

\* sorter.py lines 26-33: the next file of os.walk and the two filters.
SeqFilter(f) ==
  /\ main = "init" /\ Current(f) /\ pc[f] = "idle"
  /\ pc' = [pc EXCEPT ![f] = IF PassesFilter(File(f).ext) THEN "resolve" ELSE "collected"]
  /\ UNCHANGED << tree, source, config, faults, dry_run, fs, dirs, fs0, main, reg,
                  dest_file_path, i, result, processed_files, file_counts,
                  sorted_files, skipped_files, errors, log >>

\* sorter.py lines 36-46: dest_path (get_creation_date may raise); a dry run
\* prints the copy it would make and goes to the next file.
SeqResolve(f) ==
  /\ main = "init" /\ pc[f] = "resolve"
  /\ \/ /\ File(f).ext \notin DOMAIN config.mapping
        /\ Raise(f, "get_creation_date")
     \/ /\ UNCHANGED faults
        /\ pc' = [pc EXCEPT ![f] = IF dry_run THEN "collected" ELSE "mkdir"]
        /\ dest_file_path' = [dest_file_path EXCEPT ![f] = Candidate(f)]
        /\ UNCHANGED << result, reg, i >>
  /\ UNCHANGED << tree, source, config, dry_run, fs, dirs, fs0, main,
                  processed_files, file_counts, sorted_files, skipped_files,
                  errors, log >>

\* sorter.py line 48: os.makedirs(dest_path, exist_ok=True).
SeqMakeDirs(f) ==
  /\ main = "init" /\ pc[f] = "mkdir"
  /\ \/ /\ Raise(f, "makedirs")
        /\ UNCHANGED dirs
     \/ /\ UNCHANGED faults
        /\ dirs' = dirs \cup WithParents(dest_file_path[f].dir)
        /\ pc' = [pc EXCEPT ![f] = "copy_write"]
        /\ UNCHANGED << result, reg, i, dest_file_path >>
  /\ UNCHANGED << tree, source, config, dry_run, fs, fs0, main,
                  processed_files, file_counts, sorted_files, skipped_files,
                  errors, log >>

\* sorter.py line 49: shutil.copy2(file_path, os.path.join(dest_path,
\* filename)) creates or truncates the file at that path and writes the bytes
\* of the source; it may fail before it opened the path, or midway.
SeqCopy(f) ==
  /\ main = "init" /\ pc[f] = "copy_write"
  /\ \/ /\ Raise(f, "copy2 open")
        /\ UNCHANGED fs
     \/ /\ Raise(f, "copy2 write")
        /\ fs' = Write(dest_file_path[f], Partial)
     \/ /\ UNCHANGED faults
        /\ fs' = Write(dest_file_path[f], source[f])
        /\ pc' = [pc EXCEPT ![f] = "collected"]
        /\ UNCHANGED << result, reg, i, dest_file_path >>
  /\ UNCHANGED << tree, source, config, dry_run, dirs, fs0, main,
                  processed_files, file_counts, sorted_files, skipped_files,
                  errors, log >>

\* sorter.py lines 52-53: the exception is printed and the loop goes on.
SeqExcept(f) ==
  /\ main = "init" /\ pc[f] = "except"
  /\ pc' = [pc EXCEPT ![f] = "collected"]
  /\ result' = [result EXCEPT ![f] = Pending]
  /\ UNCHANGED << tree, source, config, faults, dry_run, fs, dirs, fs0, main, reg,
                  dest_file_path, i, processed_files, file_counts,
                  sorted_files, skipped_files, errors, log >>

\* sorter.py line 55: the walk is over.
SeqComplete ==
  /\ main = "init"
  /\ \A f \in F : pc[f] = "collected"
  /\ main' = "done"
  /\ UNCHANGED << tree, source, config, faults, dry_run, fs, dirs, fs0, pc, reg,
                  dest_file_path, i, result, processed_files, file_counts,
                  sorted_files, skipped_files, errors, log >>

NextSeq ==
  \/ \E f \in F : SeqFilter(f)
  \/ \E f \in F : SeqResolve(f)
  \/ \E f \in F : SeqMakeDirs(f)
  \/ \E f \in F : SeqCopy(f)
  \/ \E f \in F : SeqExcept(f)
  \/ SeqComplete

\* One call of sort_photos().
SpecSeq == Init /\ [][NextSeq]_vars

\* ---------------------------------------------------------------- claims
Done == main = "done"
FirstRun == Len(log) = 0
\* No call failed so far.
NoFault == faults = MaxFaults
Passing(f) == PassesFilter(File(f).ext)
Occurrences(list, f) == Cardinality({ k \in 1..Len(list) : list[k].src = f })
Outcomes(f) ==
  Occurrences(sorted_files, f) + Occurrences(skipped_files, f) + Occurrences(errors, f)
SameName(f, g) ==
  /\ File(f).base = File(g).base /\ File(f).sfx = File(g).sfx /\ File(f).ext = File(g).ext
Created == DOMAIN fs \ DOMAIN fs0.files

\* C1: in a real run, two source files with the same filename, different
\* content and the same destination directory never both end as Sorted with
\* the same final destination path.
C1_NoSharedDestination ==
  (Done /\ ~dry_run) =>
    \A k, l \in 1..Len(sorted_files) :
      LET f == sorted_files[k].src
          g == sorted_files[l].src
      IN  (f # g /\ SameName(f, g) /\ File(f).content # File(g).content
             /\ DestPath(f) = DestPath(g))
            => sorted_files[k].dst # sorted_files[l].dst

\* C2: after a real run, the destination of every Sorted outcome exists and
\* holds the bytes of its source.
C2_SortedIsCopy ==
  (Done /\ ~dry_run) =>
    \A k \in 1..Len(sorted_files) :
      /\ Exists(sorted_files[k].dst)
      /\ fs[sorted_files[k].dst] = File(sorted_files[k].src).content

\* The tree of C3: a.jpg and a second a.jpg with the same bytes and month,
\* no filter, no mapping, an empty destination, a real run in which no call
\* fails.
TwinScenario ==
  /\ tree = <<1, 1>>
  /\ config = Default
  /\ FirstRun /\ ~dry_run /\ NoFault

\* C3: the run on the twin tree ends with one of the two files Sorted to
\* 2023/05/JPG/a.jpg, the other Skipped with that path as its destination
\* (however often the lists name it), and one file created.
C3_TwinSortedOnceSkippedOnce ==
  (Done /\ TwinScenario) =>
    /\ \E f, g \in F : Class(f) = {"sorted"} /\ Class(g) = {"skipped"}
    /\ \A k \in 1..Len(sorted_files) :
         sorted_files[k].dst = DestFile(JpgMay, "a", <<>>, ".jpg")
    /\ \A k \in 1..Len(skipped_files) :
         skipped_files[k].dst = DestFile(JpgMay, "a", <<>>, ".jpg")
    /\ Cardinality(Created) = 1

\* C4: when sort returns, every file that passes the filter has exactly one
\* outcome over the three lists, and every filtered file has none.
C4_OneOutcomePerFile ==
  Done => \A f \in F : Outcomes(f) = (IF Passing(f) THEN 1 ELSE 0)

\* C5: when sort returns, processed_files is the number of files that passed
\* the filter and file_counts[e] the number of those with extension e.
C5_CountersExact ==
  Done =>
    /\ processed_files = Cardinality({ f \in F : Passing(f) })
    /\ \A e \in {".jpg", ".mov"} :
         (IF e \in DOMAIN file_counts THEN file_counts[e] ELSE 0)
           = Cardinality({ f \in F : Passing(f) /\ File(f).ext = e })

\* C6: a second real run after a real run, no call failing in either,
\* classifies every file as Skipped and creates no file.
C6_SecondRunSkipsAll ==
  (Done /\ Len(log) = 1 /\ ~log[1].dry /\ ~dry_run /\ NoFault) =>
    /\ \A f \in F : Passing(f) => Class(f) = {"skipped"}
    /\ DOMAIN fs = DOMAIN log[1].after

\* C7: a dry run classifies every file as the real run started from the same
\* destination does (the dry run first, then the real run, no call failing).
C7_DryRunClassifiesAsRealRun ==
  (Done /\ Len(log) = 1 /\ log[1].dry /\ ~dry_run /\ NoFault) =>
    \A f \in F : Class(f) = log[1].class[f]

\* C8: in a dry run the destination never differs from what it was when the
\* run started: no file and no directory is created, no content changes.
C8_DryRunNoMutation ==
  dry_run => (fs = fs0.files /\ dirs = fs0.dirs)

\* A dry run that decided to copy a file has returned.
C8_Witness ==
  /\ dry_run /\ Done
  /\ \E f \in F : Class(f) = {"sorted"}

\* C9: when the sizes of the discovered files sum to more than the free
\* space, no invocation is ever dispatched, nothing is created in the
\* destination and the three lists stay empty.
C9_DiskSpaceGuard ==
  (TotalSize > config.free) =>
    /\ main \in {"init", "aborted"}
    /\ \A f \in F : pc[f] = "idle"
    /\ fs = fs0.files /\ dirs = fs0.dirs
    /\ sorted_files = << >> /\ skipped_files = << >> /\ errors = << >>

\* The run was aborted for lack of space.
C9_Witness ==
  main = "aborted" /\ TotalSize > config.free /\ ~dry_run

\* Number of Error outcomes of the finished runs and of the current one.
ErrorsSoFar ==
  LET Past[k \in 0..Len(log)] ==
        IF k = 0 THEN 0
        ELSE Past[k - 1] + Cardinality({ f \in F : "error" \in log[k].class[f] })
  IN  Past[Len(log)] + Cardinality({ f \in F : Occurrences(errors, f) > 0 })

\* C10: a call that fails in an invocation never ends the run: when sort
\* returns, every failure has become the Error outcome of its file, and
\* every file that passes the filter has an outcome.
C10_FailureBecomesError ==
  /\ (\E f \in F : pc[f] = "except") => main = "collect"
  /\ (FirstRun /\ ~NoFault) => main \in {"collect", "done"}
  /\ Done =>
       /\ ErrorsSoFar = MaxFaults - faults
       /\ \A f \in F : Passing(f) => Class(f) # {}
       /\ \A f \in F : result[f].tag = "error" => Class(f) = {"error"}

\* A run in which one file failed and another was sorted or skipped.
C10_Witness ==
  /\ Done
  /\ \E f, g \in F :
       /\ Class(f) = {"error"}
       /\ Class(g) # {} /\ "error" \notin Class(g)

\* C11: when the copy of an invocation fails midway, no file is left at the
\* path it was writing once the invocation has returned its Error outcome.
C11_NoPartialWriteLeft ==
  [][\A f \in F :
       (pc[f] = "except" /\ result[f].msg = "copy2 write" /\ pc'[f] = "returned")
         => dest_file_path[f] \notin DOMAIN fs']_vars

\* <stem>_<n><ext> in the destination directory of f.
Suffixed(f, n) == DestFile(DestPath(f), File(f).base, Append(File(f).sfx, n), File(f).ext)

\* The least n >= 1 for which <stem>_<n><ext> does not exist.
LeastFree(f) ==
  CHOOSE n \in 1..(Cardinality(DOMAIN fs) + 1) :
    /\ Suffixed(f, n) \notin DOMAIN fs
    /\ \A k \in 1..(n - 1) : Suffixed(f, k) \in DOMAIN fs

\* A destination holding a.jpg and a_1.jpg, both different from the a.jpg of
\* the source tree.
TwoTakenScenario ==
  /\ tree = <<1>>
  /\ config.dest = (DestFile(JpgMay, "a", <<>>, ".jpg") :> "y")
                   @@ (DestFile(JpgMay, "a", <<1>>, ".jpg") :> "y")
  /\ FirstRun /\ NoFault

\* C12: the step that leaves the disambiguator loop settles on
\* <stem>_<N><ext> with N the least integer >= 1 whose path does not exist at
\* that step, a function of the files that exist; with a.jpg and a_1.jpg
\* taken by other bytes the file is Sorted to a_2.jpg.
C12_LeastFreeDisambiguator ==
  /\ [][\A f \in F :
          (pc[f] = "probe" /\ pc'[f] # "probe")
            => (IF pc'[f] = "returned" THEN result'[f] = Sorted(f, Suffixed(f, LeastFree(f)))
                ELSE dest_file_path'[f] = Suffixed(f, LeastFree(f)))]_vars
  /\ []((Done /\ TwoTakenScenario)
          => sorted_files = << Sorted(1, DestFile(JpgMay, "a", <<2>>, ".jpg")) >>)

\* The run on the destination with a.jpg and a_1.jpg taken has sorted the
\* file to a_2.jpg.
C12_Witness ==
  /\ Done /\ TwoTakenScenario
  /\ Len(sorted_files) = 1
  /\ sorted_files[1].dst.sfx = <<2>>

\* C13: after a run, a file whose extension is in both include_types and
\* exclude_types has an outcome, and a file whose extension is only in
\* exclude_types has none.
C13_IncludeOverridesExclude ==
  Done =>
    \A f \in F :
      /\ (File(f).ext \in config.include /\ File(f).ext \in config.exclude)
           => Class(f) # {}
      /\ (File(f).ext \in config.exclude /\ File(f).ext \notin config.include)
           => Class(f) = {}

\* C14: a dry run is never stopped by the disk-space check.
C14_DryRunNotBlocked == dry_run => main # "aborted"

\* C15: in every state of a run every discovered source file holds the
\* bytes it held when it was discovered.
C15_SourceUntouched == \A f \in F : source[f] = File(f).content

\* A real run ended with one file copied and another one failed, and both
\* sources are as they were.
C15_Witness ==
  /\ Done /\ ~dry_run
  /\ \E f, g \in F : "sorted" \in Class(f) /\ "error" \in Class(g)
  /\ \A f \in F : source[f] = File(f).content

\* The directory the layout rule gives f, below dest_dir.
Mapped(f) == File(f).ext \in DOMAIN config.mapping
UpperExt(f) == CASE File(f).ext = ".jpg" -> "JPG" [] File(f).ext = ".mov" -> "MOV"
ExpectedDir(f) ==
  IF Mapped(f) THEN << config.mapping[File(f).ext] >>
  ELSE << "2023", File(f).month, UpperExt(f) >>

\* C16: past line 95 the destination path of an invocation lies in the mapped
\* folder when the extension is a key of extension_mapping, whatever the
\* date, and in <YYYY>/<MM>/<EXT> otherwise; so does the path of its Sorted or
\* Skipped outcome; and get_creation_date never fails for a mapped file,
\* since it is not called.
C16_MappingPrecedence ==
  \A f \in F :
    /\ pc[f] \in {"cmp", "probe", "mkdir", "copy_open", "copy_write"}
         => dest_file_path[f].dir = ExpectedDir(f)
    /\ result[f].tag \in {"sorted", "skipped"} => result[f].dst.dir = ExpectedDir(f)
    /\ (Mapped(f) /\ result[f].tag \in {"raising", "error"})
         => result[f].msg # "get_creation_date"

\* A real run with a mapping has copied a mapped file into the mapped folder
\* and an unmapped one into its date folder.
C16_Witness ==
  /\ Done /\ ~dry_run
  /\ \E f, g \in F :
       /\ Mapped(f) /\ ~Mapped(g)
       /\ \E k \in 1..Len(sorted_files) :
            sorted_files[k].src = f /\ sorted_files[k].dst.dir = << "Videos" >>
       /\ \E k \in 1..Len(sorted_files) :
            sorted_files[k].src = g /\ sorted_files[k].dst.dir = << "2023", "05", "JPG" >>
       /\ sorted_files[1].dst \in DOMAIN fs

\* C17: after a real call of sort_photos in which nothing failed, every file
\* the destination held before the call has the content it had, and the
\* bytes of every source file that passed the filters are at its destination
\* path or at a disambiguated one.
C17_SeqResolvesCollisions ==
  (Done /\ ~dry_run /\ NoFault) =>
    /\ \A p \in DOMAIN fs0.files : p \in DOMAIN fs /\ fs[p] = fs0.files[p]
    /\ \A f \in F :
         Passing(f) =>
           \/ Candidate(f) \in DOMAIN fs /\ fs[Candidate(f)] = source[f]
           \/ \E n \in 1..(Len(tree) + Cardinality(DOMAIN fs0.files)) :
                /\ Disambiguated(f, n) \in DOMAIN fs
                /\ fs[Disambiguated(f, n)] = source[f]

\* C18: in every state of a run, every file the destination held when the
\* run started is still there with the content it had.
C18_PreExistingKept ==
  \A p \in DOMAIN fs0.files : p \in DOMAIN fs /\ fs[p] = fs0.files[p]

\* A real run found the destination path of a file taken by other bytes, has
\* copied the file beside it, and the file found there is as it was.
C18_Witness ==
  /\ Done /\ ~dry_run
  /\ \E k \in 1..Len(sorted_files) :
       LET f == sorted_files[k].src
       IN  /\ Candidate(f) \in DOMAIN fs0.files
           /\ fs0.files[Candidate(f)] # source[f]
           /\ fs[Candidate(f)] = fs0.files[Candidate(f)]
           /\ sorted_files[k].dst # Candidate(f)
           /\ sorted_files[k].dst \in DOMAIN fs

\* C19: under fair scheduling every dispatched invocation eventually returns,
\* and a run that dispatched its files eventually has collected every
\* outcome.
C19_Terminates ==
  /\ (main = "collect") ~> Done
  /\ \A f \in 1..MaxFiles :
       (f \in F /\ pc[f] = "start")
         ~> (f \in F /\ pc[f] \in {"returned", "collected"})

\* A real run ended in which an invocation went twice round the
\* disambiguator loop, past a file another invocation created during the run.
C19_Witness ==
  /\ Done /\ ~dry_run
  /\ \E k \in 1..Len(sorted_files) :
       LET f == sorted_files[k].src
       IN  \E n \in 2..(Len(tree) + Cardinality(DOMAIN fs0.files)) :
             /\ sorted_files[k].dst = Disambiguated(f, n)
             /\ Disambiguated(f, n - 1) \in DOMAIN fs \ DOMAIN fs0.files

====
